---- MODULE Spec2Model ----
(***************************************************************************)
(* Model of library/src/math/mod.rs: the conversion of a math content tree *)
(* into TeX code (trait Texify, struct Texifier and the node types).       *)
(*                                                                         *)
(* A character is a one-element token: ASCII characters are themselves,    *)
(* other codepoints are written "U+XXXX".  A string is a sequence of       *)
(* characters, so the buffer of the Texifier is a sequence of characters.  *)
(***************************************************************************)
EXTENDS Integers, Sequences, FiniteSets, TLC

VARIABLES
    builders,   \* stack of Texifier values: builders[1] is `t` of layout, the others are `sub` of texify_unparen
    calls,      \* the Texifier calls made since the previous write, the latest call last
    root,       \* the content tree handed to MathNode::layout
    request,    \* the arguments of a pending AccNode::construct call
    stack,      \* call stack of texify / texify_unparen frames
    err,        \* the error being returned through the call stack
    returned,   \* the results returned so far by the frames that saw an error below them
    visits,     \* number of nodes whose texify has started
    result,     \* outcome of the top-level conversion
    handed,     \* the strings handed to layout_tex
    panicked    \* a slice was taken out of range

vars == <<builders, calls, root, request, stack, err, returned, visits, result, handed, panicked>>

-----------------------------------------------------------------------------
(* Bounds of the model *)

MaxTexLen == 5      \* SpecB: no write starts on a buffer longer than this
MaxCalls == 4       \* SpecB: calls recorded between two writes
MaxSeqLen == 3      \* children of a general sequence node
MaxParenLen == 5    \* children of a sequence of parenthesis atoms

-----------------------------------------------------------------------------
(* Strings *)

Str_left == <<"\\", "l", "e", "f", "t">>
Str_right == <<"\\", "r", "i", "g", "h", "t">>
Str_left_paren == Str_left \o <<"(">>
Str_right_paren == Str_right \o <<")">>
Str_mathrm == <<"\\", "m", "a", "t", "h", "r", "m", "{">>
Str_explicit_space == <<"\\", " ">>

\* Length of a character in UTF-8
Utf8Len(c) ==
    IF c \in {"U+00A8", "U+00AF", "U+00B4", "U+02C7", "U+02D8", "U+0300", "U+0301",
              "U+0302", "U+0303", "U+0304", "U+0305", "U+0306", "U+0307", "U+0308",
              "U+030C"} THEN 2
    ELSE IF c \in {"U+203E", "U+20D7", "U+2192", "U+223C", "U+22C5", "U+E000"} THEN 3
    ELSE 1

RECURSIVE ByteLen(_)
ByteLen(s) == IF s = <<>> THEN 0 ELSE Utf8Len(Head(s)) + ByteLen(Tail(s))

starts_with(s, p) == Len(s) >= Len(p) /\ SubSeq(s, 1, Len(p)) = p
ends_with(s, p) == Len(s) >= Len(p) /\ SubSeq(s, Len(s) - Len(p) + 1, Len(s)) = p

\* Combining marks of the modelled alphabet: they extend the grapheme before them
Combining == {"U+0300", "U+0301", "U+0302", "U+0303", "U+0304", "U+0305", "U+0306",
              "U+0307", "U+0308", "U+030C", "U+20D7"}

\* self.0.graphemes(true).count()
GraphemeCount(s) == Cardinality({i \in 1..Len(s) : i = 1 \/ s[i] \notin Combining})

-----------------------------------------------------------------------------
(* The external tables *)

None == "None"

\* unicode_math::SYMBOLS, the entries for the modelled alphabet
SYMBOLS ==
    { [codepoint |-> "U+0300", name |-> <<"g", "r", "a", "v", "e">>, accent |-> TRUE],
      [codepoint |-> "U+0301", name |-> <<"a", "c", "u", "t", "e">>, accent |-> TRUE],
      [codepoint |-> "U+0302", name |-> <<"h", "a", "t">>, accent |-> TRUE],
      [codepoint |-> "U+0303", name |-> <<"t", "i", "l", "d", "e">>, accent |-> TRUE],
      [codepoint |-> "U+0304", name |-> <<"b", "a", "r">>, accent |-> TRUE],
      [codepoint |-> "U+0305", name |-> <<"o", "v", "e", "r", "b", "a", "r">>, accent |-> TRUE],
      [codepoint |-> "U+0306", name |-> <<"b", "r", "e", "v", "e">>, accent |-> TRUE],
      [codepoint |-> "U+0307", name |-> <<"d", "o", "t">>, accent |-> TRUE],
      [codepoint |-> "U+0308", name |-> <<"d", "d", "o", "t">>, accent |-> TRUE],
      [codepoint |-> "U+030C", name |-> <<"c", "h", "e", "c", "k">>, accent |-> TRUE],
      [codepoint |-> "U+20D7", name |-> <<"v", "e", "c">>, accent |-> TRUE],
      [codepoint |-> "U+2192", name |-> <<"r", "i", "g", "h", "t", "a", "r", "r", "o", "w">>, accent |-> FALSE],
      [codepoint |-> "U+223C", name |-> <<"s", "i", "m">>, accent |-> FALSE],
      [codepoint |-> "U+22C5", name |-> <<"c", "d", "o", "t">>, accent |-> FALSE] }

\* symmie::get, the entries for the modelled names
symmie_get(name) ==
    CASE name = "arrow.r" -> "U+2192"
      [] name = "tilde" -> "U+223C"
      [] name = "dot" -> "U+22C5"
      [] OTHER -> None

-----------------------------------------------------------------------------
(* struct Texifier *)

Texifier_new == [tex |-> <<>>, support |-> FALSE, space |-> FALSE]

finish(t) == t.tex

push_space_always(t) == [t EXCEPT !.space = TRUE]

push_space(t) == [t EXCEPT !.space = (t.tex # <<>>)]

support_forgets(t) == t

support(t) == [t EXCEPT !.support = TRUE]

flush_unsupported(t) ==
    [tex |-> IF t.space THEN t.tex \o Str_explicit_space ELSE t.tex,
     support |-> FALSE, space |-> FALSE]

flush_keep_flags(t) ==
    [t EXCEPT !.tex = IF t.space /\ t.support THEN t.tex \o Str_explicit_space ELSE t.tex]

flush(t) ==
    [tex |-> IF t.space /\ t.support THEN t.tex \o Str_explicit_space ELSE t.tex,
     support |-> FALSE, space |-> FALSE]

push_str(t, s) == [flush(t) EXCEPT !.tex = @ \o s]

Passthrough ==
    {"a", "b", "e", "x", "l", "f", "t", "1", "2",
     "*", "+", "-", "?", "!", "=", "<", ">", ":", ",", ";", "|", "/", "@", ".", "\""}

\* the text push_escaped writes for c, after the flush
escaped(c) ==
    CASE c = " " -> Str_explicit_space
      [] c \in {"%", "&", "$", "#"} -> <<"\\", c, " ">>
      [] c = "{" -> Str_left \o <<"\\", "{">>
      [] c = "}" -> Str_right \o <<"\\", "}">>
      [] c \in {"[", "("} -> Str_left \o <<c>>
      [] c \in {"]", ")"} -> Str_right \o <<c>>
      [] c \in Passthrough -> <<c>>
      [] OTHER ->
            IF \E sym \in SYMBOLS : sym.codepoint = c
            THEN <<"\\">> \o (CHOOSE sym \in SYMBOLS : sym.codepoint = c).name \o <<" ">>
            ELSE <<>>

push_escaped(t, c) == [flush(t) EXCEPT !.tex = @ \o escaped(c)]

-----------------------------------------------------------------------------
(* Content nodes *)

Node(type, text, name, kids, span, accent) ==
    [type |-> type, text |-> text, name |-> name, kids |-> kids, span |-> span, accent |-> accent]

NoNode == Node("Nothing", <<>>, "", <<>>, FALSE, "")      \* Option::None of ScriptNode
SpaceNode == Node("Space", <<>>, "", <<>>, TRUE, "")
LinebreakNode == Node("Linebreak", <<>>, "", <<>>, TRUE, "")
AlignPointNode == Node("AlignPoint", <<>>, "", <<>>, TRUE, "")
OtherNode(span) == Node("Other", <<>>, "", <<>>, span, "")  \* a node that is not capable of Texify
SymbolNode(name, span) == Node("Symbol", <<>>, name, <<>>, span, "")
TextNode(text) == Node("Text", text, "", <<>>, TRUE, "")
AtomNode(text) == Node("Atom", text, "", <<>>, TRUE, "")
SequenceNode(kids) == Node("Sequence", <<>>, "", kids, TRUE, "")
MathNode(kids) == Node("Math", <<>>, "", kids, TRUE, "")
AccNode(base, accent) == Node("Acc", <<>>, "", <<base>>, TRUE, accent)
FracNode(num, denom) == Node("Frac", <<>>, "", <<num, denom>>, TRUE, "")
BinomNode(upper, lower) == Node("Binom", <<>>, "", <<upper, lower>>, TRUE, "")
ScriptNode(base, sub, sup) == Node("Script", <<>>, "", <<base, sub, sup>>, TRUE, "")
SqrtNode(body) == Node("Sqrt", <<>>, "", <<body>>, TRUE, "")
FloorNode(body) == Node("Floor", <<>>, "", <<body>>, TRUE, "")
CeilNode(body) == Node("Ceil", <<>>, "", <<body>>, TRUE, "")

-----------------------------------------------------------------------------
(* AccNode::construct *)

Canonical == {"U+0300", "U+0301", "U+0302", "U+0303", "U+0304", "U+0305", "U+0306",
              "U+0307", "U+0308", "U+030C", "U+20D7"}

accent_of_no_tilde(c) ==
    CASE c \in {"U+0060", "U+0300"} -> "U+0300"
      [] c \in {"U+00B4", "U+0301"} -> "U+0301"
      [] c \in {"^", "U+0302"} -> "U+0302"
      [] c \in {"U+223C", "U+0303"} -> "U+0303"
      [] c \in {"U+00AF", "U+0304"} -> "U+0304"
      [] c \in {"U+203E", "U+0305"} -> "U+0305"
      [] c \in {"U+02D8", "U+0306"} -> "U+0306"
      [] c \in {".", "U+22C5", "U+0307"} -> "U+0307"
      [] c \in {"U+00A8", "U+0308"} -> "U+0308"
      [] c \in {"U+02C7", "U+030C"} -> "U+030C"
      [] c \in {"U+2192", "U+20D7"} -> "U+20D7"
      [] OTHER -> None

\* the match of extract: the canonical codepoint of an accent character, or None
accent_of(c) ==
    CASE c \in {"U+0060", "U+0300"} -> "U+0300"
      [] c \in {"U+00B4", "U+0301"} -> "U+0301"
      [] c \in {"^", "U+0302"} -> "U+0302"
      [] c \in {"~", "U+223C", "U+0303"} -> "U+0303"
      [] c \in {"U+00AF", "U+0304"} -> "U+0304"
      [] c \in {"U+203E", "U+0305"} -> "U+0305"
      [] c \in {"U+02D8", "U+0306"} -> "U+0306"
      [] c \in {".", "U+22C5", "U+0307"} -> "U+0307"
      [] c \in {"U+00A8", "U+0308"} -> "U+0308"
      [] c \in {"U+02C7", "U+030C"} -> "U+030C"
      [] c \in {"U+2192", "U+20D7"} -> "U+20D7"
      [] OTHER -> None

\* extract: [is |-> "ok", v |-> c] for Some(Ok(c)), [is |-> "err", v |-> msg] for
\* Some(Err(msg)), [is |-> "none"] for None
NoChar == [is |-> "none", v |-> ""]

extract(content) ==
    IF content.type # "Math" \/ Len(content.kids) # 1 THEN NoChar
    ELSE LET child == content.kids[1] IN
         IF child.type = "Atom" THEN
             IF Len(child.text) # 1 THEN NoChar
             ELSE IF accent_of(child.text[1]) = None THEN NoChar
             ELSE [is |-> "ok", v |-> accent_of(child.text[1])]
         ELSE IF child.type = "Symbol" THEN
             IF symmie_get(child.name) = None THEN [is |-> "err", v |-> "unknown symbol"]
             ELSE IF accent_of(symmie_get(child.name)) = None THEN NoChar
             ELSE [is |-> "ok", v |-> accent_of(symmie_get(child.name))]
         ELSE NoChar

\* AccNode::construct: the node, or the message of the error
construct(base, v) ==
    LET r == extract(v) IN
    IF r.is = "none" THEN [msg |-> "not an accent", node |-> NoNode]
    ELSE IF r.is = "err" THEN [msg |-> r.v, node |-> NoNode]
    ELSE [msg |-> None, node |-> AccNode(base, r.v)]

-----------------------------------------------------------------------------
(* The trees of the model *)

RECURSIVE SeqsUpTo(_, _)
SeqsUpTo(S, n) ==
    IF n = 0 THEN {<<>>}
    ELSE LET shorter == SeqsUpTo(S, n - 1) IN
         shorter \cup {Append(q, x) : q \in {r \in shorter : Len(r) = n - 1}, x \in S}

X == AtomNode(<<"x">>)
Open == AtomNode(<<"(">>)
Close == AtomNode(<<")">>)
Unknown == SymbolNode("nosuch", TRUE)
UnknownNoSpan == SymbolNode("nosuch", FALSE)

SeqLeafs ==
    { SpaceNode, LinebreakNode, SymbolNode("arrow.r", TRUE), Unknown, UnknownNoSpan,
      TextNode(<<"a", "b">>), X, AtomNode(<<"a", "b">>), AtomNode(<<"|">>), AtomNode(<<"U+E000">>),
      OtherNode(TRUE) }

Leafs ==
    SeqLeafs \cup
    { AlignPointNode, OtherNode(FALSE), TextNode(<<"x">>), Open, Close,
      AtomNode(<<"e", "U+0301">>), AtomNode(<<"a", "|">>) }

GeneralSeqs == {SequenceNode(k) : k \in SeqsUpTo(SeqLeafs, MaxSeqLen)}
ParenSeqs == {SequenceNode(k) : k \in SeqsUpTo({X, Open, Close}, MaxParenLen) \ {<<>>}}

SmallOps ==
    { X, Unknown, UnknownNoSpan, TextNode(<<"a", "b">>), SpaceNode,
      SequenceNode(<<Open, X, Close>>),
      SequenceNode(<<Open, Close, Open, Close>>),
      SequenceNode(<<SpaceNode, TextNode(<<"a", "b">>)>>) }

Operands == Leafs \cup ParenSeqs \cup SmallOps

Level1 ==
    {FracNode(n, d) : n \in Operands, d \in {X, Unknown, SequenceNode(<<Open, X, Close>>)}}
    \cup {BinomNode(u, l) : u \in SmallOps, l \in SmallOps}
    \cup {ScriptNode(b, sub, sup) : b \in {X, Unknown, TextNode(<<"a", "b">>)},
                                    sub \in SmallOps \cup {NoNode}, sup \in SmallOps \cup {NoNode}}
    \cup {SqrtNode(b) : b \in Operands}
    \cup {FloorNode(b) : b \in SmallOps}
    \cup {CeilNode(b) : b \in SmallOps}
    \cup {AccNode(b, a) : b \in SmallOps, a \in {"U+0303", "U+20D7"}}

Nested ==
    { FracNode(SequenceNode(<<Open, X, Close>>), X), FracNode(Unknown, X),
      ScriptNode(X, SequenceNode(<<Open, X, Close>>), NoNode), SqrtNode(X),
      MathNode(<<Open, X, Close>>) }

Level2 ==
    {FracNode(n, d) : n \in Nested, d \in Nested}
    \cup {SqrtNode(b) : b \in Nested}
    \cup {SequenceNode(<<Open, n, Close>>) : n \in Nested}

Trees ==
    {MathNode(<<n>>) : n \in GeneralSeqs \cup Operands \cup Level1 \cup Level2}
    \cup {MathNode(<<a, b>>) : a \in Nested \cup {SpaceNode}, b \in Nested \cup {X}}
    \cup {MathNode(<<SequenceNode(<<TextNode(<<"a", "b">>), SpaceNode, TextNode(<<"a", "b">>)>>),
                     SequenceNode(<<X, SpaceNode, X>>)>>)}

AccentChars ==
    {"U+0060", "U+00B4", "^", "~", "U+223C", "U+00AF", "U+203E", "U+02D8", ".", "U+22C5",
     "U+00A8", "U+02C7", "U+2192"} \cup Canonical

AccentArgs ==
    {MathNode(<<AtomNode(<<c>>)>>) : c \in AccentChars \cup {"x", "U+E000"}}
    \cup {MathNode(<<SymbolNode(n, TRUE)>>) : n \in {"tilde", "dot", "arrow.r", "nosuch"}}
    \cup { MathNode(<<AtomNode(<<"~", "~">>)>>), MathNode(<<AtomNode(<<"e", "U+0301">>)>>),
           MathNode(<<AtomNode(<<"~">>), AtomNode(<<"~">>)>>), MathNode(<<>>),
           MathNode(<<TextNode(<<"~">>)>>), AtomNode(<<"~">>) }

Requests == [base : {X, SequenceNode(<<Open, X, Close>>)}, accent : AccentArgs]
NoRequest == [base |-> NoNode, accent |-> NoNode]

-----------------------------------------------------------------------------
(* The conversion: MathNode::layout and the texify calls below it *)

Front(s) == SubSeq(s, 1, Len(s) - 1)

\* the Texifier the running function writes to
T == builders[Len(builders)]

Frame(fn, node) == [fn |-> fn, node |-> node, pc |-> 0]
Top == stack[Len(stack)]

is_ok_always(e) == TRUE

\* the `?` operator lets the caller go on only after Ok
is_ok(e) == e = None

RECURSIVE PushAll(_, _)
PushAll(t, strs) == IF strs = <<>> THEN t ELSE PushAll(push_str(t, Head(strs)), Tail(strs))

SetT(t) == builders' = [builders EXCEPT ![Len(builders)] = t]

Return == stack' = Front(stack)
Call(fn, node) == stack' = Append([stack EXCEPT ![Len(stack)].pc = @ + 1], Frame(fn, node))

Running(type) ==
    /\ result = "running" /\ stack # <<>> /\ is_ok(err)
    /\ Top.fn = "texify" /\ Top.node.type = type

Visit == visits' = IF Top.pc = 0 THEN visits + 1 ELSE visits

Init ==
    /\ \/ root \in Trees /\ request = NoRequest
       \/ root = NoNode /\ request \in Requests
    /\ builders = <<>> /\ calls = <<>> /\ stack = <<>> /\ err = None
    /\ returned = <<>> /\ visits = 0 /\ result = None /\ handed = <<>>
    /\ panicked = FALSE

Construct ==
    /\ request # NoRequest /\ root = NoNode /\ result = None
    /\ LET r == construct(request.base, request.accent) IN
       IF r.msg = None
       THEN root' = MathNode(<<r.node>>) /\ result' = result
       ELSE root' = root /\ result' = r.msg
    /\ UNCHANGED <<builders, calls, request, stack, err, returned, visits, handed, panicked>>

\* MathNode::layout up to the call of texify
Layout ==
    /\ root # NoNode /\ result = None
    /\ builders' = <<Texifier_new>>
    /\ stack' = <<Frame("texify", root)>>
    /\ result' = "running"
    /\ UNCHANGED <<calls, root, request, err, returned, visits, handed, panicked>>

\* MathNode::layout after texify has returned
LayoutReturn ==
    /\ result = "running" /\ stack = <<>>
    /\ IF is_ok(err)
       THEN handed' = Append(handed, finish(builders[1])) /\ result' = "Ok"
       ELSE handed' = handed /\ result' = err
    /\ UNCHANGED <<builders, calls, root, request, stack, err, returned, visits, panicked>>

Leaf(t) ==
    /\ SetT(t) /\ Return /\ Visit
    /\ UNCHANGED <<calls, root, request, err, returned, result, handed, panicked>>

Bail(msg) ==
    /\ err' = msg /\ returned' = Append(returned, msg) /\ Return /\ Visit
    /\ UNCHANGED <<builders, calls, root, request, result, handed, panicked>>

TexifySpace == Running("Space") /\ Leaf(push_space(T))

TexifyLinebreak == Running("Linebreak") /\ Leaf(push_str(T, <<"\\">>))

\* a symbol without a span falls through to the end of Content::texify
TexifySymbol ==
    /\ Running("Symbol")
    /\ IF symmie_get(Top.node.name) # None THEN Leaf(push_escaped(T, symmie_get(Top.node.name)))
       ELSE IF Top.node.span THEN Bail("unknown symbol")
       ELSE Leaf(T)

RECURSIVE push_chars(_, _)
push_chars(t, text) ==
    IF text = <<>> THEN t ELSE push_chars(push_escaped(t, Head(text)), Tail(text))

text_texify(t, text) ==
    support(push_str(push_chars(push_str(support(t), Str_mathrm), text), <<"}">>))

TexifyText == Running("Text") /\ Leaf(text_texify(T, Top.node.text))

RECURSIVE atom_chars(_, _)
atom_chars(t, text) ==
    IF text = <<>> THEN t
    ELSE LET c == Head(text)
             supportive == c = "|"
             t1 == IF supportive THEN support(t) ELSE t
             t2 == push_escaped(t1, c)
             t3 == IF supportive THEN support(t2) ELSE t2
         IN  atom_chars(t3, Tail(text))

atom_texify_unclosed(t, text) ==
    LET multi == GraphemeCount(text) > 1
        t1 == IF multi THEN push_str(t, Str_mathrm) ELSE t
    IN  atom_chars(t1, text)

atom_texify(t, text) ==
    LET multi == GraphemeCount(text) > 1
        t1 == IF multi THEN push_str(t, Str_mathrm) ELSE t
        t2 == atom_chars(t1, text)
    IN  IF multi THEN push_str(t2, <<"}">>) ELSE t2

TexifyAtom == Running("Atom") /\ Leaf(atom_texify(T, Top.node.text))

TexifyAlignPoint == Running("AlignPoint") /\ Leaf(T)

\* a node without the Texify capability
TexifyOther ==
    /\ Running("Other")
    /\ IF Top.node.span THEN Bail("not allowed here") ELSE Leaf(T)

\* A node with children: calls[i] is the i-th call of a child with the strings pushed
\* before it, post the strings pushed after the last call
Arg(pre, fn, node) == [pre |-> pre, fn |-> fn, node |-> node]

Compound(args, post) ==
    /\ IF Top.pc < Len(args)
       THEN /\ SetT(PushAll(T, args[Top.pc + 1].pre))
            /\ Call(args[Top.pc + 1].fn, args[Top.pc + 1].node)
       ELSE /\ SetT(PushAll(T, post))
            /\ Return
    /\ Visit
    /\ UNCHANGED <<calls, root, request, err, returned, result, handed, panicked>>

Children(kids) == [i \in 1..Len(kids) |-> Arg(<<>>, "texify", kids[i])]

TexifyMath == Running("Math") /\ Compound(Children(Top.node.kids), <<>>)

TexifySequence == Running("Sequence") /\ Compound(Children(Top.node.kids), <<>>)

AccentSym(c) == {sym \in SYMBOLS : sym.codepoint = c /\ sym.accent}

TexifyAcc ==
    /\ Running("Acc")
    /\ IF AccentSym(Top.node.accent) # {}
       THEN Compound(
                <<Arg(<<<<"\\">>, (CHOOSE sym \in AccentSym(Top.node.accent) : TRUE).name, <<"{">>>>,
                      "texify", Top.node.kids[1])>>,
                <<<<"}">>>>)
       ELSE Compound(<<Arg(<<>>, "texify", Top.node.kids[1])>>, <<>>)

TexifyFrac ==
    /\ Running("Frac")
    /\ Compound(
        <<Arg(<<<<"\\", "f", "r", "a", "c", "{">>>>, "texify_unparen", Top.node.kids[1]),
          Arg(<<<<"}", "{">>>>, "texify_unparen", Top.node.kids[2])>>,
        <<<<"}">>>>)

TexifyBinom ==
    /\ Running("Binom")
    /\ Compound(
        <<Arg(<<<<"\\", "b", "i", "n", "o", "m", "{">>>>, "texify", Top.node.kids[1]),
          Arg(<<<<"}", "{">>>>, "texify", Top.node.kids[2])>>,
        <<<<"}">>>>)

\* the calls of ScriptNode::texify; the "}" after a script is pushed before the next call
ScriptArgs(node) ==
    LET sub == node.kids[2]
        sup == node.kids[3]
    IN  <<Arg(<<>>, "texify", node.kids[1])>>
        \o (IF sub # NoNode THEN <<Arg(<<<<"_", "{">>>>, "texify_unparen", sub)>> ELSE <<>>)
        \o (IF sup # NoNode
            THEN <<Arg((IF sub # NoNode THEN <<<<"}">>>> ELSE <<>>) \o <<<<"^", "{">>>>,
                       "texify_unparen", sup)>>
            ELSE <<>>)

TexifyScript ==
    /\ Running("Script")
    /\ Compound(ScriptArgs(Top.node),
            IF Top.node.kids[2] # NoNode \/ Top.node.kids[3] # NoNode THEN <<<<"}">>>> ELSE <<>>)

TexifySqrt ==
    /\ Running("Sqrt")
    /\ Compound( <<Arg(<<<<"\\", "s", "q", "r", "t", "{">>>>, "texify", Top.node.kids[1])>>, <<<<"}">>>>)

TexifyFloor ==
    /\ Running("Floor")
    /\ Compound(
        <<Arg(<<Str_left \o <<"\\", "l", "f", "l", "o", "o", "r", " ">>>>, "texify", Top.node.kids[1])>>,
        <<Str_right \o <<"\\", "r", "f", "l", "o", "o", "r", " ">>>>)

TexifyCeil ==
    /\ Running("Ceil")
    /\ Compound(
        <<Arg(<<Str_left \o <<"\\", "l", "c", "e", "i", "l", " ">>>>, "texify", Top.node.kids[1])>>,
        <<Str_right \o <<"\\", "r", "c", "e", "i", "l", " ">>>>)

is_parened_loose(s) == starts_with(s, <<"\\">>) /\ ends_with(s, Str_right_paren)

\* the test of texify_unparen
is_parened(s) == starts_with(s, Str_left_paren) /\ ends_with(s, Str_right_paren)

\* s[6..s.len() - 7]
slice_6_7(s) == SubSeq(s, 7, Len(s) - 7)

RECURSIVE unparen_all(_)
unparen_all(s) == IF is_parened(s) THEN unparen_all(slice_6_7(s)) ELSE s

unparen(s) == IF is_parened(s) THEN slice_6_7(s) ELSE s

\* texify_unparen: the first step makes `sub` and calls texify, the second one trims
\* what `sub` holds and pushes it to `t`
TexifyUnparen ==
    /\ result = "running" /\ stack # <<>> /\ is_ok(err)
    /\ Top.fn = "texify_unparen"
    /\ IF Top.pc = 0
       THEN /\ builders' = Append(builders, Texifier_new)
            /\ Call("texify", Top.node)
            /\ UNCHANGED <<result, panicked>>
       ELSE LET s == finish(T) IN
            IF is_parened(s) /\ ByteLen(s) < 13
            THEN /\ panicked' = TRUE /\ result' = "panic"
                 /\ UNCHANGED <<builders, stack>>
            ELSE /\ builders' = [Front(builders) EXCEPT ![Len(builders) - 1] = push_str(@, unparen(s))]
                 /\ Return
                 /\ UNCHANGED <<result, panicked>>
    /\ UNCHANGED <<calls, root, request, err, returned, visits, handed>>

\* an error comes back from a call: the caller returns it
Propagate ==
    /\ result = "running" /\ stack # <<>> /\ ~is_ok(err)
    /\ Return
    /\ returned' = Append(returned, err)
    /\ builders' = IF Top.fn = "texify_unparen" THEN Front(builders) ELSE builders
    /\ UNCHANGED <<calls, root, request, err, visits, result, handed, panicked>>

Next ==
    \/ Construct \/ Layout \/ LayoutReturn
    \/ TexifySpace \/ TexifyLinebreak \/ TexifySymbol \/ TexifyText \/ TexifyAtom
    \/ TexifyAlignPoint \/ TexifyOther \/ TexifyMath \/ TexifySequence
    \/ TexifyAcc \/ TexifyFrac \/ TexifyBinom \/ TexifyScript
    \/ TexifySqrt \/ TexifyFloor \/ TexifyCeil
    \/ TexifyUnparen \/ Propagate

Spec == Init /\ [][Next]_vars

\* the conversion is one synchronous call: a step that can be taken is taken
FairSpec == Spec /\ WF_vars(Next)

-----------------------------------------------------------------------------
(* The Texifier on its own: any sequence of calls on one builder *)

Idle ==
    /\ root = NoNode /\ request = NoRequest /\ stack = <<>> /\ err = None
    /\ returned = <<>> /\ visits = 0 /\ result = None /\ handed = <<>>
    /\ panicked = FALSE

StrArgs == {<<"\\">>, <<"}">>, <<>>}
CharArgs == {"x", " ", "(", "U+E000"}

IsWrite(call) == call.op \in {"push_str", "push_escaped"}

\* the record of the calls since the previous write
Record(call) ==
    IF calls # <<>> /\ IsWrite(calls[Len(calls)]) THEN <<call>> ELSE Append(calls, call)

InitB ==
    /\ builders = <<Texifier_new>>
    /\ calls = <<>>
    /\ Idle

BUnchanged == UNCHANGED <<root, request, stack, err, returned, visits, result, handed, panicked>>

CallPushSpace ==
    /\ Len(Record([op |-> "push_space", arg |-> <<>>])) < MaxCalls
    /\ builders' = <<push_space(T)>>
    /\ calls' = Record([op |-> "push_space", arg |-> <<>>])
    /\ BUnchanged

CallSupport ==
    /\ Len(Record([op |-> "support", arg |-> <<>>])) < MaxCalls
    /\ builders' = <<support(T)>>
    /\ calls' = Record([op |-> "support", arg |-> <<>>])
    /\ BUnchanged

CallPushStr ==
    \E s \in StrArgs :
        /\ Len(T.tex) <= MaxTexLen
        /\ builders' = <<push_str(T, s)>>
        /\ calls' = Record([op |-> "push_str", arg |-> s])
        /\ BUnchanged

CallPushEscaped ==
    \E c \in CharArgs :
        /\ Len(T.tex) <= MaxTexLen
        /\ builders' = <<push_escaped(T, c)>>
        /\ calls' = Record([op |-> "push_escaped", arg |-> escaped(c)])
        /\ BUnchanged

NextB == CallPushSpace \/ CallSupport \/ CallPushStr \/ CallPushEscaped

SpecB == InitB /\ [][NextB]_vars

-----------------------------------------------------------------------------
(* Properties of the Texifier *)

Last(s) == s[Len(s)]
TexOf(b) == b[Len(b)].tex

\* the calls made since the previous write, that write not included
Pending == IF calls # <<>> /\ IsWrite(Last(calls)) THEN <<>> ELSE calls

\* this step is a push_str or push_escaped call
WriteStep == calls' = Append(Pending, Last(calls')) /\ IsWrite(Last(calls')) /\ builders' # builders

\* this step is a write whose flush added the explicit space
SpaceShown == WriteStep /\ Len(TexOf(builders')) = Len(T.tex) + 2 + Len(Last(calls').arg)

IsCall(i, op) == i \in 1..Len(Pending) /\ Pending[i].op = op

\* C2 as stated: a write shows a pending weak space only if support was marked
\* both before the weak space and after it
C2_BothSides ==
    [][SpaceShown =>
        \E i \in 1..Len(Pending) :
            /\ IsCall(i, "push_space")
            /\ \E j \in 1..(i - 1) : IsCall(j, "support")
            /\ \E k \in (i + 1)..Len(Pending) : IsCall(k, "support")]_vars

\* C2 amended: a write shows a pending weak space only if support was marked since the
\* previous write, before the weak space or after it; with no mark on either side the
\* space is dropped
C2_EitherSide ==
    [][WriteStep =>
        /\ SpaceShown =>
              \E i, j \in 1..Len(Pending) : IsCall(i, "push_space") /\ IsCall(j, "support")
        /\ (\A j \in 1..Len(Pending) : ~IsCall(j, "support")) =>
              TexOf(builders') = T.tex \o Last(calls').arg]_vars

\* a weak space was shown by a write that had support marked on one side only
C2_Witness ==
    /\ Len(calls) = 3
    /\ calls[1].op = "support" /\ calls[2].op = "push_space" /\ calls[3] = [op |-> "push_str", arg |-> <<"}">>]
    /\ ends_with(T.tex, Str_explicit_space \o <<"}">>)

\* C10: after every push_str or push_escaped call both pending flags are false, and
\* the push_space calls between two writes add at most one explicit space
C10_FlagsResetOneSpace ==
    /\ [](calls # <<>> /\ IsWrite(Last(calls)) => ~T.space /\ ~T.support)
    /\ [][WriteStep =>
            TexOf(builders') \in {T.tex \o Last(calls').arg,
                                  T.tex \o Str_explicit_space \o Last(calls').arg}]_vars

\* a dropped character was pushed after two push_space calls and one support call,
\* and one explicit space was written
C10_Witness ==
    /\ Len(calls) = 4
    /\ Cardinality({i \in 1..3 : calls[i].op = "push_space"}) = 2
    /\ calls[4] = [op |-> "push_escaped", arg |-> <<>>]
    /\ ends_with(T.tex, Str_explicit_space)
    /\ ~ends_with(T.tex, Str_explicit_space \o Str_explicit_space)
    /\ ~T.space /\ ~T.support

-----------------------------------------------------------------------------
(* Properties of the conversion *)

LeftAt(s, i) == i >= 1 /\ i + 5 <= Len(s) /\ SubSeq(s, i, i + 5) = Str_left_paren
RightAt(s, i) == i >= 1 /\ i + 6 <= Len(s) /\ SubSeq(s, i, i + 6) = Str_right_paren

\* number of \left( directives opened and not yet closed by a directive that starts at or before i
Depth(s, i) ==
    Cardinality({j \in 1..i : LeftAt(s, j)}) - Cardinality({j \in 1..i : RightAt(s, j)})

\* s is one \left( ... \right) pair: the first directive is closed by the last one
IsOuterPair(s) ==
    /\ LeftAt(s, 1) /\ RightAt(s, Len(s) - 6)
    /\ \A i \in 1..(Len(s) - 7) : Depth(s, i) >= 1

Inner(s) == SubSeq(s, 7, Len(s) - 7)

\* texify_unparen is about to trim what `sub` holds and to push it to the parent
UnparenReturns ==
    /\ result = "running" /\ stack # <<>> /\ err = None
    /\ Top.fn = "texify_unparen" /\ Top.pc = 1

\* the text this step appends to the buffer below the top one, after that buffer's flush
Spliced == SubSeq(TexOf(builders'), Len(flush(builders[Len(builders) - 1]).tex) + 1, Len(TexOf(builders')))

\* C1: the outer layer is stripped only when the whole scratch buffer is one matched
\* outer pair; in every other case the buffer is spliced unchanged
C1_StripsOnlyMatchedPair ==
    [][UnparenReturns =>
        Spliced = IF IsOuterPair(finish(T)) THEN Inner(finish(T)) ELSE finish(T)]_vars

\* C6: an operand that is one outer pair around a body is spliced as the body, and an
\* operand wrapped in two nested pairs keeps exactly one pair around the body
C6_OneLayerElided ==
    [][UnparenReturns /\ IsOuterPair(finish(T)) =>
        /\ Spliced = Inner(finish(T))
        /\ IsOuterPair(Inner(finish(T))) =>
              /\ Spliced = Str_left_paren \o Inner(Inner(finish(T))) \o Str_right_paren
              /\ Spliced # Inner(Inner(finish(T)))]_vars

\* the numerator ((x)) of a fraction was spliced as \left(x\right)
C6_Witness ==
    /\ root = MathNode(<<FracNode(SequenceNode(<<Open, Open, X, Close, Close>>), X)>>)
    /\ Len(stack) = 2 /\ Top.node.type = "Frac" /\ Top.pc = 1
    /\ T.tex = <<"\\", "f", "r", "a", "c", "{">> \o Str_left_paren \o <<"x">> \o Str_right_paren

\* Markup Dispatch has reached a Symbol node whose name has no Symbol Table entry
AtUnknownSymbol == Running("Symbol") /\ symmie_get(Top.node.name) = None

\* C3: a Symbol node without a Symbol Table entry fails the conversion with the
\* UnknownSymbol error, with or without a source location
C3_UnknownSymbolFails ==
    [][AtUnknownSymbol => err' = "unknown symbol"]_vars

RECURSIVE EscAll(_)
EscAll(text) == IF text = <<>> THEN <<>> ELSE escaped(Head(text)) \o EscAll(Tail(text))

AtMultiAtom == Running("Atom") /\ GraphemeCount(Top.node.text) > 1

\* C4 as stated: texify of an Atom of more than one grapheme leaves the builder in the
\* state texify of the LiteralText of the same text leaves it in
C4_AtomAsText ==
    [][AtMultiAtom => builders'[Len(builders')] = text_texify(T, Top.node.text)]_vars

\* C4 amended: both write the same \mathrm group and leave no weak space pending; the
\* Atom makes no support mark, so it leaves the support flag clear where LiteralText
\* leaves it set, and it drops a weak space that is pending without a support mark
\* where LiteralText shows it
C4_AtomAsTextButSupport ==
    [][AtMultiAtom =>
        LET a == builders'[Len(builders')]
            x == text_texify(T, Top.node.text)
            group == Str_mathrm \o EscAll(Top.node.text) \o <<"}">>
            shown(b) == IF b THEN Str_explicit_space ELSE <<>>
        IN  /\ ~a.space /\ ~x.space
            /\ ~a.support /\ x.support
            /\ a.tex = T.tex \o shown(T.space /\ T.support) \o group
            /\ x.tex = T.tex \o shown(T.space) \o group]_vars

\* the Atom "ab" came after an Atom and a Space: the space was dropped and the support
\* flag is clear
C4_Witness ==
    /\ root = MathNode(<<SequenceNode(<<X, SpaceNode, AtomNode(<<"a", "b">>)>>)>>)
    /\ Len(stack) = 2 /\ Top.pc = 3
    /\ T = [tex |-> <<"x">> \o Str_mathrm \o <<"a", "b", "}">>, support |-> FALSE, space |-> FALSE]

Errors == {"unknown symbol", "not allowed here", "not an accent"}

\* C5: after texify of a node has returned an error no further node is visited or
\* written, every enclosing call returns the same error up to the top-level conversion,
\* and the buffer is never finished and handed to the renderer
C5_FailFast ==
    /\ [](err # None =>
            /\ handed = <<>>
            /\ result \in {"running", err}
            /\ \A i \in 1..Len(returned) : returned[i] = err
            /\ result = err => stack = <<>>)
    /\ [][err # None =>
            /\ err' = err /\ visits' = visits /\ handed' = handed
            /\ Len(builders') <= Len(builders)
            /\ \A i \in 1..Len(builders') : builders'[i] = builders[i]
            /\ Len(stack') < Len(stack) => returned' = Append(returned, err)]_vars

\* the numerator of a fraction failed: the error came back through texify_unparen, the
\* fraction and the formula, the denominator and the next child were not visited
C5_Witness ==
    /\ root = MathNode(<<FracNode(Unknown, X), X>>)
    /\ result = "unknown symbol" /\ returned = <<result, result, result, result>>
    /\ visits = 3 /\ handed = <<>> /\ stack = <<>>
    /\ builders = <<[tex |-> <<"\\", "f", "r", "a", "c", "{">>, support |-> FALSE, space |-> FALSE]>>

Rendered(n) == IF n.type = "Text" THEN Str_mathrm \o EscAll(n.text) \o <<"}">> ELSE EscAll(n.text)

PlainAtom(n) == n.type = "Atom" /\ Len(n.text) = 1 /\ n.text[1] # "|"

\* the child B of a Sequence [.., A, Space, B, ..] is about to be converted
AtThird(IsKind(_)) ==
    /\ result = "running" /\ Len(stack) >= 2 /\ err = None
    /\ Top.fn = "texify" /\ Top.pc = 0
    /\ LET seq == stack[Len(stack) - 1] IN
        /\ seq.node.type = "Sequence" /\ seq.pc >= 3
        /\ seq.node.kids[seq.pc] = Top.node
        /\ seq.node.kids[seq.pc - 1] = SpaceNode
        /\ IsKind(seq.node.kids[seq.pc - 2]) /\ IsKind(Top.node)
        /\ ends_with(T.tex, Rendered(seq.node.kids[seq.pc - 2]))

IsText(n) == n.type = "Text"

\* C7: in a Sequence [A, Space, B] exactly one explicit space is written between two
\* LiteralText nodes, and nothing is written between two plain one-character Atoms
C7_WeakSpaceInSequence ==
    [][/\ AtThird(IsText) => TexOf(builders') = T.tex \o Str_explicit_space \o Rendered(Top.node)
       /\ AtThird(PlainAtom) => TexOf(builders') = T.tex \o Rendered(Top.node)]_vars

\* both sequences of the claim have been converted, one after the other
C7_Witness ==
    /\ root = MathNode(<<SequenceNode(<<TextNode(<<"a", "b">>), SpaceNode, TextNode(<<"a", "b">>)>>),
                         SequenceNode(<<X, SpaceNode, X>>)>>)
    /\ result = "Ok"
    /\ handed = <<Str_mathrm \o <<"a", "b", "}">> \o Str_explicit_space \o Str_mathrm \o <<"a", "b", "}">>
                    \o <<"x", "x">>>>

\* the accents with their accepted aliases
AccentTable ==
    { <<"U+0300", {"U+0060"}>>, <<"U+0301", {"U+00B4"}>>, <<"U+0302", {"^"}>>,
      <<"U+0303", {"~", "U+223C"}>>, <<"U+0304", {"U+00AF"}>>, <<"U+0305", {"U+203E"}>>,
      <<"U+0306", {"U+02D8"}>>, <<"U+0307", {".", "U+22C5"}>>, <<"U+0308", {"U+00A8"}>>,
      <<"U+030C", {"U+02C7"}>>, <<"U+20D7", {"U+2192"}>> }

Spellings(e) == e[2] \cup {e[1]}

\* AccNode::construct has returned
Constructed == request # NoRequest /\ (root # NoNode \/ result # None)

\* the characters of the accent operand: of its one Atom, or of its one resolved Symbol
OperandChars(v) ==
    IF v.type # "Math" \/ Len(v.kids) # 1 THEN <<>>
    ELSE IF v.kids[1].type = "Atom" THEN v.kids[1].text
    ELSE IF v.kids[1].type = "Symbol" /\ symmie_get(v.kids[1].name) # None
         THEN <<symmie_get(v.kids[1].name)>>
    ELSE <<>>

\* the text of a base made of atoms only
RECURSIVE BaseTex(_)
BaseTex(kids) == IF kids = <<>> THEN <<>> ELSE EscAll(Head(kids).text) \o BaseTex(Tail(kids))

\* C8: every spelling of an accent, alias or canonical codepoint, gives the node with
\* the canonical codepoint of that accent, one of the 11, and so the same output;
\* a character outside the table or an operand of more than one character fails
\* construction with "not an accent"
C8_AccentNormalized ==
    Constructed =>
        LET cs == OperandChars(request.accent) IN
        /\ Len(cs) = 1 /\ (\E e \in AccentTable : cs[1] \in Spellings(e)) =>
              LET e == CHOOSE e \in AccentTable : cs[1] \in Spellings(e)
                  sym == CHOOSE sym \in SYMBOLS : sym.codepoint = e[1]
                  base == IF request.base.type = "Atom" THEN <<request.base>> ELSE request.base.kids
              IN  /\ root = MathNode(<<AccNode(request.base, e[1])>>)
                  /\ root.kids[1].accent \in Canonical
                  /\ construct(request.base, MathNode(<<AtomNode(<<e[1]>>)>>)).node = root.kids[1]
                  /\ result \in {None, "running", "Ok"}
                  /\ result = "Ok" =>
                        handed = <<<<"\\">> \o sym.name \o <<"{">> \o BaseTex(base) \o <<"}">>>>
        /\ Len(cs) = 1 /\ (\A e \in AccentTable : cs[1] \notin Spellings(e)) =>
              root = NoNode /\ result = "not an accent"
        /\ Len(cs) > 1 => root = NoNode /\ result = "not an accent"

\* an accent built from the alias ~ was converted to the output of the canonical tilde
C8_Witness ==
    /\ request = [base |-> X, accent |-> MathNode(<<AtomNode(<<"~">>)>>)]
    /\ root = MathNode(<<AccNode(X, "U+0303")>>)
    /\ result = "Ok" /\ handed = <<<<"\\", "t", "i", "l", "d", "e", "{", "x", "}">>>>

\* C9: the conversion of a finite tree ends with a string or with one of the three
\* errors and never panics: texify_unparen never slices a buffer shorter than 13 bytes
C9_TerminatesNoPanic ==
    /\ [](~panicked /\ result \in {None, "running", "Ok"} \cup Errors)
    /\ [](UnparenReturns /\ starts_with(finish(T), Str_left_paren) /\ ends_with(finish(T), Str_right_paren)
            => ByteLen(finish(T)) >= 13)
    /\ <>(result \in {"Ok"} \cup Errors)

\* the shortest buffer that is trimmed, 13 bytes, was sliced to the empty string
C9_Witness ==
    /\ root = MathNode(<<FracNode(SequenceNode(<<Open, Close>>), X)>>)
    /\ result = "Ok" /\ ~panicked
    /\ handed = <<<<"\\", "f", "r", "a", "c", "{", "}", "{", "x", "}">>>>

\* C11: in every reachable state, in the top-level builder and in every scratch buffer
\* of texify_unparen, the pending weak-space flag is false while the buffer is empty,
\* so the next flush writes no explicit space on it, also after a support mark
C11_NoSpaceOnEmptyBuffer ==
    \A i \in 1..Len(builders) :
        builders[i].tex = <<>> =>
            /\ ~builders[i].space
            /\ flush(support(builders[i])).tex = <<>>

\* a numerator made of a Space and then a Text, which marks support, was converted in
\* its scratch buffer and no explicit space was written
C11_Witness ==
    /\ root = MathNode(<<FracNode(SequenceNode(<<SpaceNode, TextNode(<<"a", "b">>)>>), X)>>)
    /\ result = "Ok"
    /\ handed = <<<<"\\", "f", "r", "a", "c", "{">> \o Str_mathrm \o <<"a", "b", "}", "}", "{", "x", "}">>>>

====
